---- MODULE Spec2Model ----
(***************************************************************************)
(* Model of the single-position trading loop (src/src/trader.py), the      *)
(* order submitter with its retry ladder and cap cache                     *)
(* (src/src/okx_client.py) and the direction oracle (src/src/ai_client.py).*)
(*                                                                         *)
(* Numbers.  Money amounts (balance, notional, last price) are integers in *)
(* one common money quantum; plan_size_from_notional only uses the         *)
(* quotient notional*leverage/last and the comparison                      *)
(* (contracts+1)*last/leverage <= notional, so it does not depend on the   *)
(* quantum.  Ratios (tp_percent, sl_percent) are integers in permille.     *)
(* A trigger price last*(1 +/- ratio) is held exactly, in thousandths of   *)
(* the quantum (PxDen); the quantum is the sixth decimal that the          *)
(* "%.6f" formatting of the trigger keeps.  Arithmetic is exact: the       *)
(* rounding error of binary floating point is not modelled.                *)
(*                                                                         *)
(* Python's None is the empty sequence; a present value x is <<x>>.        *)
(***************************************************************************)
EXTENDS Integers, Sequences, FiniteSets, TLC

\* ------------------------------------------------------------------ bounds
\* number of cycles that may pass the entry guard in one behaviour
MaxCycles == 2

\* ------------------------------------------------------- program constants
PxDen == 1000
DefaultLeverage == 100
DefaultTpPermille == 20
DefaultSlPermille == 10
DefaultBaseNotional == 10
AiFallbackLookback == 10
HeuristicLookback == 30

\* --------------------------------------------------------- Python helpers
None == <<>>
Some(x) == <<x>>
\* truth value of an Optional[int]: None and 0 are false
Truthy(o) == o # None /\ o[1] # 0
\* the Python expression (o or d)
OrElse(o, d) == IF Truthy(o) THEN o[1] ELSE d
\* the Python expression (o if o is not None else d)
IfNotNone(o, d) == IF o # None THEN o[1] ELSE d
Max(a, b) == IF a >= b THEN a ELSE b
Min(a, b) == IF a <= b THEN a ELSE b
Abs(a) == IF a >= 0 THEN a ELSE -a
\* int(a / b) for b > 0: truncation toward zero
IntTrunc(a, b) == IF a >= 0 THEN a \div b ELSE -((-a) \div b)
\* a // b for b > 0: floor division
FloorDiv(a, b) == a \div b
SetMin(S) == CHOOSE x \in S : \A y \in S : x <= y
SetMax(S) == CHOOSE x \in S : \A y \in S : x >= y
SeqSet(s) == {s[i] : i \in 1..Len(s)}

\* ------------------------------------------------------------ configuration
Instrument(id, lev, tp, sl, base, fixed, maxc) ==
    [inst_id |-> id, leverage |-> lev, tp_percent |-> tp, sl_percent |-> sl,
     base_notional_usdt |-> base, fixed_contracts |-> fixed, max_contracts |-> maxc]

TradingConfig(dry, maxc) ==
    [default_leverage |-> DefaultLeverage,
     default_tp_percent |-> DefaultTpPermille,
     default_sl_percent |-> DefaultSlPermille,
     base_notional_usdt |-> DefaultBaseNotional,
     margin_mode |-> "cross",
     dry_run |-> dry,
     max_contracts |-> maxc]

AppConfig(dry, maxc, ai, insts) ==
    [trading |-> TradingConfig(dry, maxc), ai_kind |-> ai, instruments |-> insts]

\* the configurations a behaviour may start from
InstPlain == Instrument("BTC-USDT-SWAP", None, None, None, None, None, None)
InstCapped == Instrument("ETH-USDT-SWAP", Some(2), Some(0), Some(-5), Some(40), None, Some(3))
InstFixed == Instrument("DOGE-USDT-SWAP", None, None, None, Some(40), Some(2000), Some(3))
InstBig == Instrument("SOL-USDT-SWAP", None, None, None, Some(40), None, None)
InstZero == Instrument("XRP-USDT-SWAP", None, Some(0), Some(0), Some(40), Some(0), Some(0))
InstNeg == Instrument("LTC-USDT-SWAP", None, None, None, Some(-5), None, None)

Configs ==
    { AppConfig(FALSE, Some(0), "openai", <<InstPlain, InstCapped>>),
      AppConfig(FALSE, Some(4), "openai", <<InstFixed>>),
      AppConfig(FALSE, Some(2000), "heuristic", <<InstBig>>),
      AppConfig(TRUE, None, "heuristic", <<InstZero>>),
      AppConfig(FALSE, None, "heuristic", <<InstNeg>>) }

\* ------------------------------------------------------ exchange payloads
\* a position entry: its "pos" field is missing, a numeric string, or a
\* string float() rejects
PosMissing == [kind |-> "missing", v |-> 0]
PosNum(x) == [kind |-> "num", v |-> x]
PosBad == [kind |-> "bad", v |-> 0]
\* the answers of a position query
PositionLists ==
    { <<>>, <<PosNum(0)>>, <<PosMissing>>, <<PosNum(0), PosMissing>>,
      <<PosNum(1)>>, <<PosNum(0), PosNum(-1)>>, <<PosNum(1), PosBad>>,
      <<PosBad>>, <<PosNum(0), PosBad>>, <<PosBad, PosNum(1)>> }


\* float(p.get("pos", 0)) of a well-formed entry
PosValue(p) == IF p.kind = "num" THEN p.v ELSE 0

\* any(abs(float(p.get("pos", 0))) > 0 for p in positions): entries are read
\* left to right and reading stops at the first non-zero one; an entry that
\* float() rejects raises ValueError when it is read
RECURSIVE AnyOpenFrom(_, _)
AnyOpenFrom(ps, i) ==
    IF i > Len(ps) THEN "flat"
    ELSE IF ps[i].kind = "bad" THEN "error"
    ELSE IF Abs(PosValue(ps[i])) > 0 THEN "open"
    ELSE AnyOpenFrom(ps, i + 1)

\* mutant: the size is compared without abs(), so a short position reads as flat
RECURSIVE AnyOpenNoAbsFrom(_, _)
AnyOpenNoAbsFrom(ps, i) ==
    IF i > Len(ps) THEN "flat"
    ELSE IF ps[i].kind = "bad" THEN "error"
    ELSE IF PosValue(ps[i]) > 0 THEN "open"
    ELSE AnyOpenNoAbsFrom(ps, i + 1)

any_open_no_abs(ps) == AnyOpenNoAbsFrom(ps, 1)

\* mutant: only the first entry is looked at
any_open_first_only(ps) == AnyOpenFrom(SubSeq(ps, 1, Min(1, Len(ps))), 1)

any_open(ps) == AnyOpenFrom(ps, 1)

\* every entry reports size zero (a missing "pos" reads as 0)
AllSizesZero(ps) == \A i \in 1..Len(ps) : ps[i].kind # "bad" /\ PosValue(ps[i]) = 0

\* candle rows, newest first; only the close (field 4) is read
Row(c) == [close |-> Some(c)]
BadRow == [close |-> None]
Rows(s) == [i \in 1..Len(s) |-> Row(s[i])]
CandleLists ==
    { <<>>,
      Rows(<<100, 101, 102>>),
      Rows(<<100, 99, 98>>),
      <<Row(100), BadRow, Row(102)>>,
      Rows(<<100>>),
      Rows(<<100, 100>>),
      Rows(<<100, 100, 100, 100, 100, 100, 100, 100, 100, 99, 105>>) }

\* get_usdt_balance as read by open_position, by trade_loop before the open
\* (the snapshot) and by log_close_order
Balances == {0, 5, 1000}
SnapshotBalances == {1000}
CloseBalances == {995}
LastPrices == {0, 1, 30000}

\* ----------------------------------------------------------- Size Planner
\* mutant: the floor is not raised to the minimum of 1
plan_size_no_minimum(last_raw, notional_usdt, leverage) ==
    LET last == IF last_raw = 0 THEN 1 ELSE last_raw
        effective == notional_usdt * leverage
        contracts == IntTrunc(effective, last)
    IN  [contracts |-> IF (contracts + 1) * last <= notional_usdt * leverage
                       THEN contracts + 1 ELSE contracts,
         notional |-> notional_usdt]

\* mutant: the quotient is taken the wrong way round (last / effective)
plan_size_swapped(last_raw, notional_usdt, leverage) ==
    LET last == IF last_raw = 0 THEN 1 ELSE last_raw
        effective == notional_usdt * leverage
        contracts == Max(1, IntTrunc(last, effective))
    IN  [contracts |-> contracts, notional |-> notional_usdt]

\* mutant: the increment is taken whenever the floor itself fits
plan_size_always_increments(last_raw, notional_usdt, leverage) ==
    LET last == IF last_raw = 0 THEN 1 ELSE last_raw
        effective == notional_usdt * leverage
        contracts == Max(1, IntTrunc(effective, last))
    IN  [contracts |-> IF contracts * last <= notional_usdt * leverage
                       THEN contracts + 1 ELSE contracts,
         notional |-> notional_usdt]

\* mutant: the quotient is rounded up instead of down
plan_size_rounds_up(last_raw, notional_usdt, leverage) ==
    LET last == IF last_raw = 0 THEN 1 ELSE last_raw
        effective == notional_usdt * leverage
    IN  [contracts |-> Max(1, IntTrunc(effective + last - 1, last)),
         notional |-> notional_usdt]

\* SizePlan of plan_size_from_notional; last is what get_last_price returned.
\* next_amt <= notional_usdt is (contracts+1)*last/leverage <= notional_usdt,
\* written without the division (leverage > 0)
plan_size_from_notional(last_raw, notional_usdt, leverage) ==
    LET last == IF last_raw = 0 THEN 1 ELSE last_raw
        effective == notional_usdt * leverage
        contracts == Max(1, IntTrunc(effective, last))
    IN  [contracts |-> IF (contracts + 1) * last <= notional_usdt * leverage
                       THEN contracts + 1 ELSE contracts,
         notional |-> notional_usdt]

\* the candidates of the hard cap: [c for c in [inst_max, global_max, max_cap] if c]
CapCandidates(inst_max, global_max, max_cap) ==
    {c[1] : c \in {o \in {inst_max, global_max, max_cap} : Truthy(o)}}

\* mutant: the caps are applied to fixed_contracts too
apply_caps_fixed_capped(inst, trading, max_cap, contracts) ==
    LET candidates == CapCandidates(inst.max_contracts, trading.max_contracts, max_cap)
        wanted == IF Truthy(inst.fixed_contracts) THEN inst.fixed_contracts[1] ELSE contracts
    IN  IF candidates # {} /\ wanted > SetMin(candidates)
        THEN SetMin(candidates) ELSE wanted

\* mutant: the loosest candidate is taken as the hard cap
apply_caps_loosest(inst, trading, max_cap, contracts) ==
    IF Truthy(inst.fixed_contracts) THEN inst.fixed_contracts[1]
    ELSE LET candidates == CapCandidates(inst.max_contracts, trading.max_contracts, max_cap)
         IN  IF candidates # {} /\ contracts > SetMax(candidates)
             THEN SetMax(candidates) ELSE contracts

\* contracts after fixed_contracts / max_contracts / cached cap are applied
apply_caps(inst, trading, max_cap, contracts) ==
    IF Truthy(inst.fixed_contracts) THEN inst.fixed_contracts[1]
    ELSE LET candidates == CapCandidates(inst.max_contracts, trading.max_contracts, max_cap)
         IN  IF candidates # {} /\ contracts > SetMin(candidates)
             THEN SetMin(candidates) ELSE contracts

\* --------------------------------------------------------- Direction Oracle
\* mutant: long when the first close of the window exceeds the last one
heuristic_first_over_last(candles, lookback) ==
    LET n == Min(Len(candles), lookback)
    IN  IF \E i \in 1..n : candles[i].close = None THEN "short"
        ELSE IF n >= 2 /\ candles[1].close[1] > candles[n].close[1] THEN "long"
        ELSE "short"

\* closes = [float(c[4]) for c in candles[:lookback]];
\* long iff len(closes) >= 2 and closes[-1] > closes[0]; any exception: short
heuristic(candles, lookback) ==
    LET n == Min(Len(candles), lookback)
    IN  IF \E i \in 1..n : candles[i].close = None THEN "short"
        ELSE IF n >= 2 /\ candles[n].close[1] > candles[1].close[1] THEN "long"
        ELSE "short"

\* what the decision service call does
AiOutcomes == {"long", "short", "both", "neither",
               "http_error", "timeout", "transport_error", "malformed"}
AiRaises == {"http_error", "timeout", "transport_error", "malformed"}

\* OpenAICompatClient.decide_direction: [raised, decision]; raised names the
\* exception that leaves the function ("" when it returns)
openai_decide(outcome, candles) ==
    IF outcome \in AiRaises THEN [raised |-> outcome, decision |-> ""]
    ELSE IF outcome \in {"long", "short"} THEN [raised |-> "", decision |-> outcome]
    ELSE [raised |-> "", decision |-> heuristic(candles, AiFallbackLookback)]

\* HeuristicAIClient.decide_direction
heuristic_decide(candles) ==
    [raised |-> "", decision |-> heuristic(candles, HeuristicLookback)]

\* ---------------------------------------------------------- Cap Cache
\* _cap_cache is a dict keyed by <<inst_id, lever>>: a function whose domain
\* is the set of keys present
get_cached_position_cap(cache, inst_id, lever) ==
    IF <<inst_id, lever>> \in DOMAIN cache THEN Some(cache[<<inst_id, lever>>]) ELSE None

\* mutant: a write drops the entries of the other keys
update_position_cap_forgets(cache, inst_id, lever, cap) ==
    IF inst_id # "" /\ lever # 0 /\ Truthy(cap)
    THEN [k \in {<<inst_id, lever>>} |-> cap[1]]
    ELSE cache

\* update_position_cap: writes only when inst_id, lever and cap are all truthy
update_position_cap(cache, inst_id, lever, cap) ==
    IF inst_id # "" /\ lever # 0 /\ Truthy(cap)
    THEN [k \in DOMAIN cache \cup {<<inst_id, lever>>} |->
             IF k = <<inst_id, lever>> THEN cap[1] ELSE cache[k]]
    ELSE cache

\* ------------------------------------------------------ rejection messages
\* sMsg, reduced to what place_order reads from it: whether it is a TP-side
\* text ("tp price" with "lower" or "higher"), the digits-and-commas token in
\* front of the first "(contracts)" and the one after "maximum position
\* amount"; an empty token means the pattern does not match
Msg(hint, ctok, mtok) == [tp_hint |-> hint, contracts_tok |-> ctok, max_amt_tok |-> mtok]
NoMsg == Msg(FALSE, <<>>, <<>>)
Msg1500 == Msg(FALSE, <<"1", ",", "5", "0", "0">>, <<>>)
Msg3000 == Msg(FALSE, <<"3", ",", "0", "0", "0">>, <<>>)
MsgMax2 == Msg(FALSE, <<",">>, <<"2">>)
MsgTpSide == Msg(TRUE, <<>>, <<>>)

DigitVal(c) ==
    CASE c = "0" -> 0 [] c = "1" -> 1 [] c = "2" -> 2 [] c = "3" -> 3 [] c = "4" -> 4
      [] c = "5" -> 5 [] c = "6" -> 6 [] c = "7" -> 7 [] c = "8" -> 8 [] c = "9" -> 9

RECURSIVE DigitsValue(_)
DigitsValue(ds) ==
    IF ds = <<>> THEN 0
    ELSE 10 * DigitsValue(SubSeq(ds, 1, Len(ds) - 1)) + DigitVal(ds[Len(ds)])

\* mutant: the number is read up to the first comma
ParseIntToComma(tok) ==
    LET stop == IF \E i \in 1..Len(tok) : tok[i] = ","
                THEN CHOOSE i \in 1..Len(tok) :
                        tok[i] = "," /\ \A j \in 1..(i - 1) : tok[j] # ","
                ELSE Len(tok) + 1
        ds == SubSeq(tok, 1, stop - 1)
    IN  IF ds = <<>> THEN None ELSE Some(DigitsValue(ds))

NotComma(c) == c # ","
\* int(tok.replace(",", "")): None stands for the ValueError of an empty string
ParseInt(tok) ==
    LET ds == SelectSeq(tok, NotComma)
    IN  IF ds = <<>> THEN None ELSE Some(DigitsValue(ds))

\* cap_value of place_order for a 51004 message
parse_cap_value(msg) ==
    LET first == IF msg.contracts_tok # <<>> THEN ParseInt(msg.contracts_tok) ELSE None
    IN  IF first # None THEN first
        ELSE IF msg.max_amt_tok # <<>> THEN ParseInt(msg.max_amt_tok)
        ELSE None

\* ----------------------------------------------------- exchange responses
Item(id, sc, msg) == [ordId |-> id, sCode |-> sc, sMsg |-> msg]
Resp(code, data) == [code |-> code, data |-> data]
\* trade.place_order raised instead of returning
RaiseResp == Resp("raise", <<>>)
\* what place_order's except clause returns
ErrorDict == Resp("-1", <<>>)
RespOk == Resp("0", <<Item("o1", "0", NoMsg)>>)
RespOkNoId == Resp("0", <<Item("", "0", NoMsg)>>)
RespNoData == Resp("1", <<>>)
RespTp == Resp("1", <<Item("", "51051", NoMsg)>>)
RespTpText == Resp("1", <<Item("", "51000", MsgTpSide)>>)
RespMargin == Resp("1", <<Item("", "51008", NoMsg)>>)
RespOther == Resp("1", <<Item("o1", "51000", NoMsg)>>)
RespCap(msg) == Resp("1", <<Item("", "51004", msg)>>)
Responses ==
    { RespOk, RespOkNoId, RespNoData, RespTp, RespTpText, RespMargin, RespOther,
      RespCap(NoMsg), RespCap(Msg1500), RespCap(Msg3000), RespCap(MsgMax2), RaiseResp }
\* the exchange's answers to a retry
RetryResponses == {RespOk, RespTp, RespCap(Msg3000), RespMargin, RespOther, RaiseResp}

HasItem(r) == r.code # "raise" /\ r.data # <<>>
\* the TP-direction test of the first response
tp_rejected(r) ==
    HasItem(r) /\ (r.data[1].sCode \in {"51052", "51051"} \/ r.data[1].sMsg.tp_hint)
cap_rejected(r) == HasItem(r) /\ r.data[1].sCode = "51004"
margin_rejected(r) == HasItem(r) /\ r.data[1].sCode = "51008"

\* --------------------------------------------------------- trigger prices
\* mutant: in net mode the order is always taken for a long one
is_long_net_always(pos_side, side) ==
    IF pos_side = "short" THEN FALSE ELSE TRUE

\* direction used for TP and SL: pos_side long/short decides, net uses side
is_long(pos_side, side) ==
    IF pos_side = "long" THEN TRUE
    ELSE IF pos_side = "short" THEN FALSE
    ELSE IF pos_side = "net" THEN side = "buy"
    ELSE TRUE

\* tp_px in 1/PxDen of the quantum; last * 1.002 is last * (PxDen + 2) / PxDen
tp_px(last, tp_ratio, long) ==
    LET ratio == Abs(tp_ratio)
    IN  IF long
        THEN IF last * (PxDen + ratio) <= last * PxDen
             THEN last * (PxDen + 2) ELSE last * (PxDen + ratio)
        ELSE IF last * (PxDen - ratio) >= last * PxDen
             THEN last * (PxDen - 2) ELSE last * (PxDen - ratio)

sl_px(last, sl_ratio, long) ==
    LET ratio == Abs(sl_ratio)
    IN  IF long
        THEN IF last * (PxDen - ratio) >= last * PxDen
             THEN last * (PxDen - 2) ELSE last * (PxDen - ratio)
        ELSE IF last * (PxDen + ratio) <= last * PxDen
             THEN last * (PxDen + 2) ELSE last * (PxDen + ratio)

\* f"{px:.6f}" read back as a number of quanta: px rounded to the nearest
\* quantum (an exact half goes to the even one)
Fmt6(px) ==
    LET base == px \div PxDen
        rem == px % PxDen
    IN  IF 2 * rem < PxDen THEN base
        ELSE IF 2 * rem > PxDen THEN base + 1
        ELSE IF base % 2 = 0 THEN base ELSE base + 1

\* ---------------------------------------------------------- Order Submitter
Params(inst_id, td_mode, side, sz, pos_side, tp, sl) ==
    [instId |-> inst_id, tdMode |-> td_mode, side |-> side, ordType |-> "market",
     sz |-> sz,
     posSide |-> IF pos_side \in {"long", "short"} THEN Some(pos_side) ELSE None,
     tpTriggerPx |-> tp, tpTriggerPxType |-> "last",
     slTriggerPx |-> sl, slTriggerPxType |-> "last"]

\* what place_order hands back for one exchange submission: an exception of
\* trade.place_order becomes the error dict of the except clause
Returned(r) == IF r = RaiseResp THEN ErrorDict ELSE r

\* the TP retry fires on a TP-direction rejection when a TP trigger is
\* attached (always, for the calls of open_position) and last is truthy
tp_retry_fires(resp1, last) == tp_rejected(resp1) /\ last # 0

\* the flipped TP trigger of the retry, formatted; ratio is
\* float(computed["tp_ratio"] or 0.01) and 0.001 is one permille
new_tp(last, tp_ratio, orig_tp) ==
    LET ratio == IF Abs(tp_ratio) = 0 THEN 10 ELSE Abs(tp_ratio)
    IN  IF orig_tp >= last
        THEN Fmt6(last * (PxDen - Max(1, ratio)))
        ELSE Fmt6(last * (PxDen + Max(1, ratio)))

\* mutant: the parsed maximum is not used for the retry size
cap_new_sz_always_halves(cap_value, cur_sz) ==
    IF cur_sz # 0 THEN Some(Max(1, FloorDiv(cur_sz, 2))) ELSE None

\* mutant: the retry takes the parsed maximum without clamping it to the size
cap_new_sz_unclamped(cap_value, cur_sz) ==
    IF Truthy(cap_value) /\ cur_sz # 0 THEN Some(Max(1, cap_value[1]))
    ELSE IF cur_sz # 0 THEN Some(Max(1, FloorDiv(cur_sz, 2)))
    ELSE None

\* new_sz of the 51004 rung (None: no retry size)
cap_new_sz(cap_value, cur_sz) ==
    IF Truthy(cap_value) /\ cur_sz # 0 THEN Some(Max(1, Min(cur_sz, cap_value[1])))
    ELSE IF cur_sz # 0 THEN Some(Max(1, FloorDiv(cur_sz, 2)))
    ELSE None

\* the cache after the 51004 rung
cap_rung_cache(cache, inst_id, lever, cap_value, cur_sz) ==
    IF Truthy(cap_value) /\ cur_sz # 0
    THEN update_position_cap(cache, inst_id, lever, cap_value)
    ELSE cache

\* mutant: the 51008 rung retries for a size of 1 too
margin_retry_always(resp1, cur_sz) == margin_rejected(resp1) /\ cur_sz # 0

\* the 51008 rung retries only for a size above 1
margin_retry_fires(resp1, cur_sz) == margin_rejected(resp1) /\ cur_sz # 0 /\ cur_sz > 1

\* a call that ends with its first submission
once(params, resp1, cache) ==
    [requests |-> <<params>>, responses |-> <<resp1>>, result |-> Returned(resp1),
     cache |-> cache]

\* mutant: a retry that is rejected for the TP side again is sent once more
retry_until_accepted(params, params_retry, resp1, resp2, cache) ==
    IF tp_rejected(resp2)
    THEN [requests |-> <<params, params_retry, params_retry>>,
          responses |-> <<resp1, resp2, resp2>>, result |-> Returned(resp2),
          cache |-> cache]
    ELSE [requests |-> <<params, params_retry>>, responses |-> <<resp1, resp2>>,
          result |-> Returned(resp2), cache |-> cache]

\* mutant: a retry answered with a 51004 or 51008 rejection is sent once more
retry_reinspects(params, params_retry, resp1, resp2, cache) ==
    IF cap_rejected(resp2) \/ margin_rejected(resp2)
    THEN [requests |-> <<params, params_retry, params_retry>>,
          responses |-> <<resp1, resp2, resp2>>, result |-> Returned(resp2),
          cache |-> cache]
    ELSE [requests |-> <<params, params_retry>>, responses |-> <<resp1, resp2>>,
          result |-> Returned(resp2), cache |-> cache]

\* a rung that fired: the retry is sent and its answer is returned as it is
retry_once(params, params_retry, resp1, resp2, cache) ==
    [requests |-> <<params, params_retry>>, responses |-> <<resp1, resp2>>,
     result |-> Returned(resp2), cache |-> cache]

\* OkxClient.place_order after get_last_price returned last: the requests
\* sent, the value returned and the cap cache afterwards.  resp1 and resp2
\* are the exchange's answers to the first and to a second submission.
place_order(cache, inst_id, side, td_mode, sz, pos_side, tp_ratio, sl_ratio, lever, last, resp1, resp2) ==
    LET long == is_long(pos_side, side)
        tp == Fmt6(tp_px(last, tp_ratio, long))
        sl == Fmt6(sl_px(last, sl_ratio, long))
        params == Params(inst_id, td_mode, side, sz, pos_side, tp, sl)
        cap_value == parse_cap_value(resp1.data[1].sMsg)
        new_sz == cap_new_sz(cap_value, sz)
    IN  IF resp1 = RaiseResp
        THEN once(params, resp1, cache)
        ELSE IF tp_retry_fires(resp1, last)
        THEN retry_once(params, [params EXCEPT !.tpTriggerPx = new_tp(last, tp_ratio, tp)],
                        resp1, resp2, cache)
        ELSE IF cap_rejected(resp1)
        THEN IF Truthy(new_sz) /\ new_sz[1] # sz
             THEN retry_once(params, [params EXCEPT !.sz = new_sz[1]], resp1, resp2,
                             cap_rung_cache(cache, inst_id, lever, cap_value, sz))
             ELSE once(params, resp1, cap_rung_cache(cache, inst_id, lever, cap_value, sz))
        ELSE IF margin_retry_fires(resp1, sz)
        THEN retry_once(params, [params EXCEPT !.sz = Max(1, FloorDiv(sz, 2))],
                        resp1, resp2, cache)
        ELSE once(params, resp1, cache)

\* mutant: the status code is not looked at
order_id_any_code(r) ==
    IF r.data # <<>> /\ r.data[1].ordId # "" THEN Some(r.data[1].ordId) ELSE None

\* ord_id of open_position: only code "0" with a non-empty data[0].ordId
order_id_of(r) ==
    IF r.code = "0" /\ r.data # <<>> /\ r.data[1].ordId # "" THEN Some(r.data[1].ordId)
    ELSE None

\* ------------------------------------------------------------------- state
VARIABLES
    cfg,           \* AppConfig, fixed at start
    pc,            \* where trade_loop stands
    idx,           \* round-robin cursor of trade_loop
    inst,          \* position in cfg.instruments of the selected instrument (0: none yet)
    positions,     \* result of the latest position query
    candles_1h,    \* candles of this cycle: fetched by trade_loop, then the list
                   \* open_position handed to decide_direction
    open_balance,  \* balance snapshot taken before open_position
    direction,     \* open_position: the oracle's decision
    pos_side,      \* open_position: posSide passed to place_order
    side,          \* open_position: buy / sell
    notional,      \* open_position: min(balance, base_notional)
    sizing,        \* open_position: last price, leverage, cached cap and uncapped size
    sz_plan,       \* open_position: the SizePlan after caps
    order_last,    \* place_order: the last price its triggers are computed from
    requests,      \* place_order: the requests sent to the exchange by the latest call
    responses,     \* place_order: the exchange's answers to those requests, in order
    result,        \* place_order: the value returned by the latest call
    ord_id,        \* trade_loop: what open_position returned
    cap_cache,     \* OkxClient._cap_cache
    ledger,        \* rows of the close ledger
    error,         \* exception that left trade_loop ("" while it runs)
    trace,         \* calls made by the latest step, in order, then the exception
                   \* trade_loop caught, if any
    slept,         \* poll intervals slept by the latest step
    flat_pending   \* history: an order id was returned by a live open_position and no
                   \* position query since has reported every size as zero

vars == <<cfg, pc, idx, inst, positions, candles_1h, open_balance, direction, pos_side,
          side, notional, sizing, sz_plan, order_last, requests, responses, result, ord_id,
          cap_cache, ledger, error, trace, slept, flat_pending>>

NoSizing == [last |-> 0, leverage |-> 0, max_cap |-> None, raw |-> 0]
NoPlan == [contracts |-> 0, notional |-> 0]
NoResult == Resp("", <<>>)
EmptyCache == [k \in {} |-> 0]

\* the selected instrument and the values open_position derives from it
Inst == cfg.instruments[inst]
Leverage == OrElse(Inst.leverage, cfg.trading.default_leverage)
TpRatio == IfNotNone(Inst.tp_percent, cfg.trading.default_tp_percent)
SlRatio == IfNotNone(Inst.sl_percent, cfg.trading.default_sl_percent)
BaseNotional == OrElse(Inst.base_notional_usdt, cfg.trading.base_notional_usdt)

Init ==
    /\ cfg \in Configs
    /\ pc = "guard"
    /\ idx = 0
    /\ inst = 0
    /\ positions = <<>>
    /\ candles_1h = <<>>
    /\ open_balance = None
    /\ direction = ""
    /\ pos_side = ""
    /\ side = ""
    /\ notional = 0
    /\ sizing = NoSizing
    /\ sz_plan = NoPlan
    /\ order_last = 0
    /\ requests = <<>>
    /\ responses = <<>>
    /\ result = NoResult
    /\ ord_id = None
    /\ cap_cache = EmptyCache
    /\ ledger = <<>>
    /\ error = ""
    /\ trace = <<>>
    /\ slept = 0
    /\ flat_pending = FALSE

\* Locals that are never read again before they are reassigned (the frame of
\* open_position / place_order once trade_loop moves on, the candles and the
\* balance snapshot of an abandoned cycle) are reset to their initial values.
FrameGone ==
    /\ direction' = ""
    /\ pos_side' = ""
    /\ side' = ""
    /\ notional' = 0
    /\ sizing' = NoSizing
    /\ sz_plan' = NoPlan
    /\ order_last' = 0
    /\ requests' = <<>>
    /\ responses' = <<>>
    /\ result' = NoResult


\* mutant: the NetworkError is not caught and leaves trade_loop
NetworkFaultLeaves(calls) ==
    /\ pc' = "crashed"
    /\ error' = "NetworkError"
    /\ trace' = calls \o <<"NetworkError">>
    /\ slept' = 0
    /\ positions' = <<>>
    /\ candles_1h' = <<>>
    /\ open_balance' = None
    /\ FrameGone
    /\ UNCHANGED <<cfg, idx, inst, ord_id, cap_cache, ledger, flat_pending>>

\* except NetworkError (trader.py 295-300): log, sleep one poll interval,
\* continue; the last of calls is the one that raised, and the trace ends
\* with the exception that was caught
NetworkFault(calls) ==
    /\ pc' = "guard"
    /\ trace' = calls \o <<"NetworkError">>
    /\ slept' = 1
    /\ positions' = <<>>
    /\ candles_1h' = <<>>
    /\ open_balance' = None
    /\ FrameGone
    /\ UNCHANGED <<cfg, idx, inst, ord_id, cap_cache, ledger, error, flat_pending>>

\* an exception other than NetworkError leaves trade_loop
Crash(calls, exc) ==
    /\ pc' = "crashed"
    /\ error' = exc
    /\ trace' = calls
    /\ slept' = 0
    /\ candles_1h' = <<>>
    /\ open_balance' = None
    /\ FrameGone
    /\ UNCHANGED <<cfg, idx, inst, ord_id, cap_cache, ledger, flat_pending>>

\* ------------------------------------------------------------- trade_loop
\* mutant: the first instrument is taken every time
select_always_first(cursor, n) == 1

\* cfg.instruments[idx % len(cfg.instruments)], as a position counted from 1
select_instrument(cursor, n) == (cursor % n) + 1

\* entry guard and instrument selection (trader.py 253-266)
GuardCheck ==
    /\ pc = "guard"
    /\ \/ NetworkFault(<<"get_positions">>)
       \/ \E ps \in PositionLists :
            /\ any_open(ps) = "error"
            /\ positions' = ps
            /\ Crash(<<"get_positions">>, "ValueError")
       \/ \E ps \in PositionLists :
            /\ any_open(ps) = "open"
            /\ positions' = ps
            /\ pc' = "guard"
            /\ trace' = <<"get_positions">>
            /\ slept' = 1
            /\ candles_1h' = <<>>
            /\ open_balance' = None
            /\ flat_pending' = (flat_pending /\ ~AllSizesZero(ps))
            /\ FrameGone
            /\ UNCHANGED <<cfg, idx, inst, ord_id, cap_cache, ledger, error>>
       \/ \E ps \in PositionLists :
            /\ any_open(ps) = "flat"
            /\ idx < MaxCycles
            /\ positions' = ps
            /\ inst' = select_instrument(idx, Len(cfg.instruments))
            /\ idx' = idx + 1
            /\ pc' = "candles"
            /\ trace' = <<"get_positions">>
            /\ slept' = 0
            /\ candles_1h' = <<>>
            /\ open_balance' = None
            /\ ord_id' = None
            /\ flat_pending' = (flat_pending /\ ~AllSizesZero(ps))
            /\ FrameGone
            /\ UNCHANGED <<cfg, cap_cache, ledger, error>>

\* candles_1h = okx.get_candles(...) (trader.py 268)
FetchCandles ==
    /\ pc = "candles"
    /\ \/ NetworkFault(<<"get_candles">>)
       \/ \E cs \in CandleLists :
            /\ candles_1h' = cs
            /\ pc' = "open_balance"
            /\ trace' = <<"get_candles">>
            /\ slept' = 0
            /\ positions' = <<>>
            /\ FrameGone
            /\ UNCHANGED <<cfg, idx, inst, open_balance, ord_id, cap_cache, ledger,
                           error, flat_pending>>

\* open_balance = okx.get_usdt_balance() (trader.py 271)
FetchOpenBalance ==
    /\ pc = "open_balance"
    /\ \/ NetworkFault(<<"get_usdt_balance">>)
       \/ \E b \in SnapshotBalances :
            /\ open_balance' = Some(b)
            /\ pc' = "decide"
            /\ trace' = <<"get_usdt_balance">>
            /\ slept' = 0
            /\ FrameGone
            /\ UNCHANGED <<cfg, idx, inst, positions, candles_1h, ord_id, cap_cache,
                           ledger, error, flat_pending>>

\* ai.decide_direction of the configured client
decide_direction(outcome, candles) ==
    IF cfg.ai_kind = "openai" THEN openai_decide(outcome, candles)
    ELSE heuristic_decide(candles)

\* open_position up to the order side (trader.py 88-98); cs is what a second
\* get_candles returns when candles_override is empty
DecideWith(cs, calls) ==
    \E outcome \in AiOutcomes, mode \in {"net", "long_short"} :
        LET d == decide_direction(outcome, cs)
        IN  \/ /\ d.raised # ""
               /\ positions' = <<>>
               /\ Crash(calls \o <<"decide_direction">>, d.raised)
            \/ /\ d.raised = ""
               /\ direction' = d.decision
               /\ pos_side' = IF mode = "net" THEN "net"
                              ELSE IF d.decision = "long" THEN "long" ELSE "short"
               /\ side' = IF d.decision = "long" THEN "buy" ELSE "sell"
               /\ pc' = "balance"
               /\ trace' = calls \o <<"decide_direction", "get_position_mode">>
               /\ slept' = 0
               /\ candles_1h' = cs
               /\ UNCHANGED <<cfg, idx, inst, positions, open_balance, notional, sizing,
                              sz_plan, order_last, requests, responses, result, ord_id, cap_cache,
                              ledger, error, flat_pending>>

Decide ==
    /\ pc = "decide"
    /\ \/ /\ candles_1h # <<>>
          /\ DecideWith(candles_1h, <<>>)
       \/ /\ candles_1h = <<>>
          /\ NetworkFault(<<"get_candles">>)
       \/ /\ candles_1h = <<>>
          /\ \E cs \in CandleLists : DecideWith(cs, <<"get_candles">>)

\* balance check and notional (trader.py 106-115); a balance <= 0 makes
\* open_position return None
ReadBalance ==
    /\ pc = "balance"
    /\ \/ NetworkFault(<<"get_usdt_balance">>)
       \/ \E b \in Balances :
            /\ b <= 0
            /\ ord_id' = None
            /\ pc' = "returned"
            /\ trace' = <<"get_usdt_balance">>
            /\ slept' = 0
            /\ candles_1h' = <<>>
            /\ UNCHANGED <<cfg, idx, inst, positions, open_balance, direction,
                           pos_side, side, notional, sizing, sz_plan, order_last, requests,
                           responses, result, cap_cache, ledger, error, flat_pending>>
       \/ \E b \in Balances :
            /\ b > 0
            /\ notional' = Min(b, BaseNotional)
            /\ pc' = "plan"
            /\ trace' = <<"get_usdt_balance">>
            /\ slept' = 0
            /\ candles_1h' = <<>>
            /\ UNCHANGED <<cfg, idx, inst, positions, open_balance, direction,
                           pos_side, side, sizing, sz_plan, order_last, requests, responses, result,
                           ord_id, cap_cache, ledger, error, flat_pending>>

\* sizing, caps and the dry-run return (trader.py 117-160)
PlanSize ==
    /\ pc = "plan"
    /\ \/ NetworkFault(<<"get_last_price">>)
       \/ \E last \in LastPrices :
            LET raw == plan_size_from_notional(last, notional, Leverage)
                max_cap == get_cached_position_cap(cap_cache, Inst.inst_id, Leverage)
            IN  /\ sizing' = [last |-> last, leverage |-> Leverage, max_cap |-> max_cap,
                              raw |-> raw.contracts]
                /\ sz_plan' = [raw EXCEPT !.contracts =
                                  apply_caps(Inst, cfg.trading, max_cap, raw.contracts)]
                /\ trace' = <<"get_last_price">>
                /\ slept' = 0
                /\ IF cfg.trading.dry_run
                   THEN /\ ord_id' = Some("dry-run-order-id")
                        /\ pc' = "returned"
                   ELSE /\ ord_id' = ord_id
                        /\ pc' = "submit"
                /\ UNCHANGED <<cfg, idx, inst, positions, candles_1h, open_balance,
                               direction, pos_side, side, notional, order_last, requests,
                               responses, result, cap_cache, ledger, error, flat_pending>>

\* set_leverage, place_order and the order id test (trader.py 163-189); the
\* sizing locals are not read after place_order is called
Submit ==
    /\ pc = "submit"
    /\ \/ NetworkFault(<<"set_leverage", "get_last_price">>)
       \/ \E last \in LastPrices, resp1 \in Responses, resp2 \in RetryResponses :
            \* a second answer exists only when a second submission is made
            /\ Len(place_order(cap_cache, Inst.inst_id, side, cfg.trading.margin_mode,
                               sz_plan.contracts, pos_side, TpRatio, SlRatio, Leverage,
                               last, resp1, RespOk).requests) = 1 => resp2 = RespOk
            /\ LET out == place_order(cap_cache, Inst.inst_id, side, cfg.trading.margin_mode,
                                      sz_plan.contracts, pos_side, TpRatio, SlRatio, Leverage,
                                      last, resp1, resp2)
               IN  /\ order_last' = last
                   /\ requests' = out.requests
                   /\ responses' = out.responses
                   /\ result' = out.result
                   /\ cap_cache' = out.cache
                   /\ ord_id' = order_id_of(out.result)
                   /\ flat_pending' = (order_id_of(out.result) # None)
                   /\ pc' = "returned"
                   /\ trace' = <<"set_leverage", "get_last_price">>
                                \o [i \in 1..Len(out.requests) |-> "place_order"]
                   /\ slept' = 0
                   /\ notional' = 0
                   /\ sizing' = NoSizing
                   /\ sz_plan' = NoPlan
                   /\ UNCHANGED <<cfg, idx, inst, positions, candles_1h, open_balance,
                                  direction, pos_side, side, ledger, error>>

\* mutant: a dry-run cycle polls for the close like a live one
AfterOpenAlwaysPolls ==
    /\ pc = "returned"
    /\ pc' = IF ord_id = None THEN "guard" ELSE "await"
    /\ slept' = IF ord_id = None THEN 1 ELSE 0
    /\ open_balance' = IF ord_id = None THEN None ELSE open_balance
    /\ trace' = <<>>
    /\ FrameGone
    /\ UNCHANGED <<cfg, idx, inst, positions, candles_1h, ord_id, cap_cache, ledger,
                   error, flat_pending>>

\* mutant: a failed open goes back to the entry guard without waiting
AfterOpenNoWait ==
    /\ pc = "returned"
    /\ pc' = IF ord_id = None THEN "guard"
             ELSE IF cfg.trading.dry_run THEN "close" ELSE "await"
    /\ slept' = IF ord_id # None /\ cfg.trading.dry_run THEN 1 ELSE 0
    /\ open_balance' = IF ord_id = None THEN None ELSE open_balance
    /\ trace' = <<>>
    /\ FrameGone
    /\ UNCHANGED <<cfg, idx, inst, positions, candles_1h, ord_id, cap_cache, ledger,
                   error, flat_pending>>

\* trade_loop on the value open_position returned (trader.py 272-292): no id,
\* sleep and continue; dry-run, one sleep in place of the closing wait; live,
\* start polling
AfterOpen ==
    /\ pc = "returned"
    /\ pc' = IF ord_id = None THEN "guard"
             ELSE IF cfg.trading.dry_run THEN "close" ELSE "await"
    /\ slept' = IF ord_id = None \/ cfg.trading.dry_run THEN 1 ELSE 0
    /\ open_balance' = IF ord_id = None THEN None ELSE open_balance
    /\ trace' = <<>>
    /\ FrameGone
    /\ UNCHANGED <<cfg, idx, inst, positions, candles_1h, ord_id, cap_cache, ledger,
                   error, flat_pending>>

\* one iteration of poll_until_no_positions (trader.py 195-200)
PollClose ==
    /\ pc = "await"
    /\ \/ NetworkFault(<<"get_positions">>)
       \/ \E ps \in PositionLists :
            /\ any_open(ps) = "error"
            /\ positions' = ps
            /\ Crash(<<"get_positions">>, "ValueError")
       \/ \E ps \in PositionLists :
            /\ any_open(ps) # "error"
            /\ positions' = ps
            /\ trace' = <<"get_positions">>
            /\ IF any_open(ps) = "open"
               THEN /\ pc' = "await"
                    /\ slept' = 1
               ELSE /\ pc' = "close"
                    /\ slept' = 0
            /\ flat_pending' = (flat_pending /\ ~AllSizesZero(ps))
            /\ FrameGone
            /\ UNCHANGED <<cfg, idx, inst, candles_1h, open_balance, ord_id, cap_cache,
                           ledger, error>>

\* realized_pnl_ratio of log_close_order: "-" unless the position summary
\* carries a ratio float() accepts
Summaries == {"none", "ratio"}
pnl_text(summary) == IF summary = "ratio" THEN "1.50%" ELSE "-"

\* log_close_order (trader.py 202-229), then back to the entry guard
LogClose ==
    /\ pc = "close"
    /\ \/ NetworkFault(<<"get_usdt_balance">>)
       \/ \E close_balance \in CloseBalances, summary \in Summaries :
            /\ ledger' = Append(ledger,
                   [inst_id |-> Inst.inst_id, open_balance |-> open_balance[1],
                    close_balance |-> close_balance,
                    profit |-> close_balance - open_balance[1],
                    realized_pnl_ratio |-> pnl_text(summary), ord_id |-> ord_id[1]])
            /\ pc' = "guard"
            /\ trace' = <<"get_usdt_balance", "get_positions">>
            /\ slept' = 0
            /\ positions' = <<>>
            /\ open_balance' = None
            /\ FrameGone
            /\ UNCHANGED <<cfg, idx, inst, candles_1h, ord_id, cap_cache, error,
                           flat_pending>>

Next ==
    \/ GuardCheck
    \/ FetchCandles
    \/ FetchOpenBalance
    \/ Decide
    \/ ReadBalance
    \/ PlanSize
    \/ Submit
    \/ AfterOpen
    \/ PollClose
    \/ LogClose

Spec == Init /\ [][Next]_vars

\* ------------------------------------------------------------ properties
\* what the properties say about a position list, stated on the payload
SomeSizeNonZero(ps) == \E i \in 1..Len(ps) : ps[i].kind = "num" /\ ps[i].v # 0
WellFormed(ps) == \A i \in 1..Len(ps) : ps[i].kind # "bad"

\* calls that open a position
OpenCalls == {"decide_direction", "set_leverage", "place_order"}
NoOpenCall(calls) == \A i \in 1..Len(calls) : calls[i] \notin OpenCalls

\* open_position has planned a size / place_order has returned
PostPlan == sizing.leverage # 0
PostSubmit == pc = "returned" /\ requests # <<>>

\* sizing inputs next to the ones the loop produces
SizeNs == {1, 2, 3, 5, 10, 40, 1000}
SizeLs == {1, 2, 3, 100}
SizePs == {1, 2, 3, 7, 30000}

\* C1: when the position query at the start of a cycle returns an entry with
\* a non-zero size, the cycle makes that query and nothing else (no decision,
\* no leverage change, no submission, no instrument selected), waits one poll
\* interval and stands at the entry guard again.
C1_GuardSkipsCycle ==
    [][ (pc = "guard" /\ SomeSizeNonZero(positions')) =>
            /\ trace' = <<"get_positions">>
            /\ NoOpenCall(trace')
            /\ pc' \in {"guard", "crashed"}
            /\ (WellFormed(positions') => pc' = "guard" /\ slept' = 1)
            /\ requests' = <<>>
            /\ direction' = ""
            /\ UNCHANGED <<idx, inst, cap_cache, ledger>> ]_vars

C1_Witness ==
    /\ pc = "guard"
    /\ SomeSizeNonZero(positions)
    /\ trace = <<"get_positions">>
    /\ slept = 1

\* C2: in live mode, from the return of an order id until a position query
\* reports every size as zero, no step decides a direction, sets leverage or
\* submits an order, whatever network faults occur in between; and a poll of
\* the wait that sees a non-zero size keeps waiting, however many came before.
C2_NoOpenUntilFlat ==
    [][ /\ flat_pending => NoOpenCall(trace')
        /\ (flat_pending /\ pc = "await" /\ WellFormed(positions')
                /\ SomeSizeNonZero(positions')) =>
              (pc' = "await" /\ slept' = 1 /\ flat_pending') ]_vars

C2_Witness ==
    /\ flat_pending
    /\ ~cfg.trading.dry_run
    /\ pc = "guard"
    /\ trace = <<"get_positions", "NetworkError">>
    /\ positions = <<>>
    /\ slept = 1

\* a response that carries a TP-direction code
TpCode(r) == r.code # "raise" /\ r.data # <<>> /\ r.data[1].sCode \in {"51051", "51052"}

\* C3: a place_order call whose first response and retry response are both
\* TP-direction rejections has made exactly two submissions and returned the
\* second response.
C3_TpRetrySingleShot ==
    (Len(responses) >= 2 /\ TpCode(responses[1]) /\ TpCode(responses[2])) =>
        /\ Len(requests) = 2
        /\ Len(responses) = 2
        /\ result = responses[2]

C3_Witness ==
    /\ PostSubmit
    /\ Len(requests) = 2
    /\ TpCode(responses[1])
    /\ TpCode(responses[2])
    /\ result = responses[2]
    /\ requests[2].tpTriggerPx # requests[1].tpTriggerPx

\* C4: for notional > 0, leverage >= 1 and last price > 0 the planned number
\* of contracts is at least 1, for the sizes the loop plans and for every
\* input of the grid.
C4_ContractsAtLeastOne ==
    PostPlan =>
        /\ (notional > 0 /\ sizing.leverage >= 1 /\ sizing.last > 0) => sizing.raw >= 1
        /\ \A n \in SizeNs, l \in SizeLs, p \in (SizePs \cup {sizing.last}) \ {0} :
               plan_size_from_notional(p, n, l).contracts >= 1

C4_Witness ==
    /\ PostPlan
    /\ sizing.last > notional * sizing.leverage
    /\ notional > 0
    /\ sizing.raw = 1

\* C5: at a fixed last price the uncapped size is monotone in notional and
\* leverage: inputs that are both at least (at most) the ones just planned
\* with give at least (at most) as many contracts.
C5_SizingMonotone ==
    (PostPlan /\ sizing.last > 0) =>
        \A n \in SizeNs, l \in SizeLs :
            LET other == plan_size_from_notional(sizing.last, n, l).contracts
            IN  /\ (n >= notional /\ l >= sizing.leverage) => other >= sizing.raw
                /\ (n <= notional /\ l <= sizing.leverage) => other <= sizing.raw

C5_Witness ==
    /\ PostPlan
    /\ sizing.last > 0
    /\ \E n \in SizeNs, l \in SizeLs :
          /\ n <= notional
          /\ l <= sizing.leverage
          /\ plan_size_from_notional(sizing.last, n, l).contracts < sizing.raw
          /\ plan_size_from_notional(sizing.last, n, l).contracts > 1

\* C6 as stated: whenever fixed_contracts is non-null the planned size equals it.
C6_FixedWheneverSet ==
    (PostPlan /\ Inst.fixed_contracts # None) =>
        sz_plan.contracts = Inst.fixed_contracts[1]

\* C6: whenever fixed_contracts is set to a non-zero value, the size planned
\* and the size of the first submission equal it, whatever the balance,
\* notional, leverage, price and caps.
C6_FixedWhenNonZero ==
    /\ (PostPlan /\ Truthy(Inst.fixed_contracts)) =>
           sz_plan.contracts = Inst.fixed_contracts[1]
    /\ (PostSubmit /\ Truthy(Inst.fixed_contracts)) =>
           requests[1].sz = Inst.fixed_contracts[1]

C6_Witness ==
    /\ PostPlan
    /\ Truthy(Inst.fixed_contracts)
    /\ Truthy(sizing.max_cap)
    /\ sizing.max_cap[1] < Inst.fixed_contracts[1]
    /\ Truthy(Inst.max_contracts)
    /\ Inst.max_contracts[1] < Inst.fixed_contracts[1]
    /\ sz_plan.contracts = Inst.fixed_contracts[1]

\* the cap candidates of the planning step, as the configuration and the
\* cache give them
CandidateOptions == {Inst.max_contracts, cfg.trading.max_contracts, sizing.max_cap}

\* C7 as stated: with fixed_contracts unset the planned size is at most every
\* non-null candidate.
C7_BelowEveryNonNull ==
    (PostPlan /\ Inst.fixed_contracts = None) =>
        \A c \in CandidateOptions : c # None => sz_plan.contracts <= c[1]

\* C7: with fixed_contracts unset the planned size is at most every candidate
\* that is neither null nor zero, and is the uncapped size when that exceeds
\* none of them.
C7_BelowEveryNonZero ==
    (PostPlan /\ Inst.fixed_contracts = None) =>
        /\ \A c \in CandidateOptions : Truthy(c) => sz_plan.contracts <= c[1]
        /\ (\A c \in CandidateOptions : Truthy(c) => sizing.raw <= c[1]) =>
               sz_plan.contracts = sizing.raw

C7_Witness ==
    /\ PostPlan
    /\ Inst.fixed_contracts = None
    /\ \E c, d \in CandidateOptions :
          /\ Truthy(c)
          /\ Truthy(d)
          /\ c[1] < d[1]
          /\ d[1] < sizing.raw
          /\ sz_plan.contracts = c[1]

\* the cache key of the instrument in hand
CapKey == <<Inst.inst_id, Leverage>>

\* C8 as stated: once 1500 is cached for the pair, every planning for it
\* proposes at most 1500.
C8_NeverAbove1500 ==
    (PostPlan /\ CapKey \in DOMAIN cap_cache /\ cap_cache[CapKey] = 1500) =>
        sz_plan.contracts <= 1500

\* C8: a place_order call whose first response is a 51004 rejection with
\* "1,500(contracts)" in its message leaves 1500 in the cache for the pair;
\* a later planning for the pair, for an instrument without a non-zero
\* fixed_contracts, proposes at most the cap the cache then holds.
C8_CapCachedAndApplied ==
    /\ (PostSubmit /\ responses[1] = RespCap(Msg1500)) =>
           (CapKey \in DOMAIN cap_cache /\ cap_cache[CapKey] = 1500)
    /\ (PostPlan /\ ~Truthy(Inst.fixed_contracts) /\ CapKey \in DOMAIN cap_cache) =>
           sz_plan.contracts <= cap_cache[CapKey]

C8_Witness ==
    /\ PostPlan
    /\ ~Truthy(Inst.fixed_contracts)
    /\ CapKey \in DOMAIN cap_cache
    /\ cap_cache[CapKey] = 1500
    /\ sizing.raw > 1500
    /\ sz_plan.contracts = 1500

\* C9: for a take-profit ratio >= 0 and whatever last price was returned,
\* the take-profit trigger place_order computed is strictly above last for a
\* long order and strictly below last for a short one.
C9_TpStrictlyBeyondLast ==
    (PostSubmit /\ TpRatio >= 0) =>
        LET long == is_long(pos_side, side)
            px == tp_px(order_last, TpRatio, long)
        IN  IF long THEN px > order_last * PxDen ELSE px < order_last * PxDen

\* C10: a step that called decide_direction got "long" or "short" back,
\* whatever the decision service did; the call raised nothing into the loop.
C10_DecideNeverFails ==
    "decide_direction" \in SeqSet(trace) =>
        (error = "" /\ pc # "crashed" /\ direction \in {"long", "short"})

\* the closes of a candle list all parse
ClosesParse(cs) == \A i \in 1..Len(cs) : cs[i].close # None
\* the decision was made by the heuristic client and is still in hand
HeuristicDecided == pc = "balance" /\ cfg.ai_kind = "heuristic"

\* "long" exactly when the newest close (the first row) is above the close at
\* the far end of the lookback window
NewestOverWindowEnd(cs, lookback) ==
    LET n == Min(Len(cs), lookback)
    IN  IF ClosesParse(SubSeq(cs, 1, n)) /\ n >= 2 /\ cs[1].close[1] > cs[n].close[1]
        THEN "long" ELSE "short"

\* C11: for candles ordered newest-first the heuristic decides "long" exactly
\* when the most recent close is strictly above the close at the far end of
\* the lookback window, and "short" in every other case.
C11_LongWhenPriceRose ==
    HeuristicDecided => direction = NewestOverWindowEnd(candles_1h, HeuristicLookback)

\* "long" exactly when there are two closes or more and the last one of the
\* sequence is above the first
LastOverFirst(cs) ==
    IF ClosesParse(cs) /\ Len(cs) >= 2 /\ cs[Len(cs)].close[1] > cs[1].close[1]
    THEN "long" ELSE "short"

\* C12: for a close sequence c[0..k-1] inside the lookback window the
\* heuristic decides "long" exactly when k >= 2 and c[k-1] > c[0], else
\* "short"; [100, 101, 102] gives "long", [100, 99, 98] gives "short" and a
\* row whose close does not parse gives "short".
C12_LastCloseOverFirst ==
    (HeuristicDecided /\ Len(candles_1h) <= HeuristicLookback) =>
        /\ direction = LastOverFirst(candles_1h)
        /\ candles_1h = Rows(<<100, 101, 102>>) => direction = "long"
        /\ candles_1h = Rows(<<100, 99, 98>>) => direction = "short"
        /\ ~ClosesParse(candles_1h) => direction = "short"

C12_Witness ==
    /\ HeuristicDecided
    /\ candles_1h = Rows(<<100, 101, 102>>)
    /\ direction = "long"
    /\ side = "buy"

\* calls that change something at the exchange
ExchangeWrites == {"set_leverage", "place_order"}
NoExchangeWrite(calls) == \A i \in 1..Len(calls) : calls[i] \notin ExchangeWrites

\* C13: when the notional used for sizing, min(balance, base notional), is
\* <= 0, the open attempt sends no leverage change and no order to the
\* exchange and returns no order id.
C13_NoOrderWithoutNotional ==
    [][ (pc \in {"plan", "submit"} /\ notional <= 0) =>
            (NoExchangeWrite(trace') /\ ord_id' = None) ]_vars

\* the exchange's answer to the last submission of the call
FinalResponse == responses[Len(responses)]
Accepted(r) == r.code = "0" /\ r.data # <<>> /\ r.data[1].ordId # ""

FaultCaught == trace # <<>> /\ trace[Len(trace)] = "NetworkError"
FaultIn(call) == Len(trace) >= 2 /\ FaultCaught /\ trace[Len(trace) - 1] = call

\* C15: a NetworkError raised by an exchange call at any point of a cycle
\* does not end trade_loop: the rest of the cycle is skipped (no further
\* call, no ledger row, no cache write, the cursor stays), exactly one poll
\* interval is waited and the loop stands at the entry guard.
C15_FaultSkipsCycle ==
    [][ FaultCaught' =>
            /\ pc' = "guard"
            /\ error' = ""
            /\ slept' = 1
            /\ UNCHANGED <<idx, inst, ledger, cap_cache, ord_id>>
            /\ requests' = <<>> ]_vars

\* a fault in the close accounting of a cycle that had obtained an order id
C15_Witness ==
    /\ FaultIn("get_usdt_balance")
    /\ ord_id # None
    /\ pc = "guard"
    /\ slept = 1
    /\ error = ""

\* C16: trade_loop has no terminal state: whatever the exchange and the
\* decision service answer, no exception leaves the loop.
C16_NoTerminalState == pc # "crashed" /\ error = ""

DryRunId == Some("dry-run-order-id")

\* C18: in dry-run mode no step sends a leverage change or an order; a cycle
\* whose planning succeeds gets the placeholder id, sleeps exactly one poll
\* interval in place of the closing wait (no position poll), then records
\* the close under that id and stands at the entry guard again.
C18_DryRunCycle ==
    [][ cfg.trading.dry_run =>
            /\ NoExchangeWrite(trace')
            /\ requests' = <<>>
            /\ pc' # "await"
            /\ (pc = "plan" /\ ~FaultCaught') => (ord_id' = DryRunId /\ pc' = "returned")
            /\ (pc = "returned" /\ ord_id # None) =>
                  (pc' = "close" /\ slept' = 1 /\ trace' = <<>> /\ ledger' = ledger)
            /\ (pc = "close" /\ ~FaultCaught') =>
                  /\ Len(ledger') = Len(ledger) + 1
                  /\ SubSeq(ledger', 1, Len(ledger)) = ledger
                  /\ ledger'[Len(ledger')].ord_id = "dry-run-order-id"
                  /\ ledger'[Len(ledger')].inst_id = Inst.inst_id
                  /\ pc' = "guard"
                  /\ slept' = 0 ]_vars

C18_Witness ==
    /\ cfg.trading.dry_run
    /\ pc = "guard"
    /\ ord_id = DryRunId
    /\ Len(ledger) = 1
    /\ ledger[1].ord_id = "dry-run-order-id"
    /\ ~FaultCaught

\* C19: when open_position returned no order id the loop does not wait for a
\* close and appends no ledger row: it sleeps exactly one poll interval,
\* makes no call and stands at the entry guard, still running.
C19_FailedOpenWaits ==
    [][ (pc = "returned" /\ ord_id = None) =>
            /\ pc' = "guard"
            /\ slept' = 1
            /\ trace' = <<>>
            /\ error' = ""
            /\ UNCHANGED <<ledger, idx, cap_cache, ord_id>> ]_vars

\* back at the guard, in live mode, after an open attempt that gave no order id
C19_Witness ==
    /\ pc = "guard"
    /\ idx > 0
    /\ trace = <<>>
    /\ slept = 1
    /\ ord_id = None
    /\ ~cfg.trading.dry_run
    /\ ledger = <<>>

\* C20: the ledger has one row per cycle that obtained an order id, faults
\* during the closing wait or the close accounting notwithstanding, and none
\* for a cycle without an id: a row is only ever appended at the close of a
\* cycle that holds an id, and by the time the next cycle is let through the
\* guard the row of the last such cycle, with its instrument and id, is there.
C20_RowPerOrderId ==
    [][ /\ ledger' # ledger =>
              /\ pc = "close"
              /\ ord_id # None
              /\ Len(ledger') = Len(ledger) + 1
              /\ SubSeq(ledger', 1, Len(ledger)) = ledger
              /\ ledger'[Len(ledger')].ord_id = ord_id[1]
        /\ (pc = "guard" /\ pc' = "candles" /\ ord_id # None) =>
              /\ ledger # <<>>
              /\ ledger[Len(ledger)].ord_id = ord_id[1]
              /\ ledger[Len(ledger)].inst_id = Inst.inst_id ]_vars

\* the first response of the call and the size it was asked for
FirstSz == requests[1].sz
FirstItem == responses[1].data[1]
FirstIs(code) ==
    /\ PostSubmit
    /\ responses[1].code # "raise"
    /\ responses[1].data # <<>>
    /\ FirstItem.sCode = code
    /\ ~FirstItem.sMsg.tp_hint

\* the maximum a rejection message states (None: it states none)
StatedMax(msg) ==
    IF msg = Msg1500 THEN Some(1500)
    ELSE IF msg = Msg3000 THEN Some(3000)
    ELSE IF msg = MsgMax2 THEN Some(2)
    ELSE None

\* the size the 51004 rung is to retry with
CapRetrySz(max, s) == IF max # None THEN Min(s, max[1]) ELSE Max(1, s \div 2)

\* C21 as stated: after a 51004 first response the call has resubmitted once,
\* with min(s, M) when the message states a maximum M (which is then cached)
\* and with max(1, s div 2) when it states none.
C21_CapRetryAlways ==
    FirstIs("51004") =>
        /\ Len(requests) = 2
        /\ requests[2].sz = CapRetrySz(StatedMax(FirstItem.sMsg), FirstSz)
        /\ StatedMax(FirstItem.sMsg) # None =>
              (CapKey \in DOMAIN cap_cache /\ cap_cache[CapKey] = StatedMax(FirstItem.sMsg)[1])

\* C21: after a 51004 first response for size s the size to retry with is
\* min(s, M) when the message states a maximum M, which is then cached under
\* (instrument, leverage), and max(1, s div 2) when it states none; the call
\* resubmits exactly once with that size when it differs from s, and
\* otherwise makes no second submission and returns the rejection.
C21_CapRetryWhenSmaller ==
    FirstIs("51004") =>
        LET max == StatedMax(FirstItem.sMsg)
            new == CapRetrySz(max, FirstSz)
        IN  /\ max # None => (CapKey \in DOMAIN cap_cache /\ cap_cache[CapKey] = max[1])
            /\ new # FirstSz =>
                  /\ Len(requests) = 2
                  /\ requests[2] = [requests[1] EXCEPT !.sz = new]
                  /\ result = IF responses[2] = RaiseResp THEN ErrorDict ELSE responses[2]
            /\ new = FirstSz => (Len(requests) = 1 /\ result = responses[1])

C21_Witness ==
    /\ FirstIs("51004")
    /\ FirstItem.sMsg = Msg1500
    /\ FirstSz > 1500
    /\ Len(requests) = 2
    /\ requests[2].sz = 1500
    /\ cap_cache[CapKey] = 1500

\* C22: after a 51008 first response for size s the call has, when s > 1,
\* resubmitted exactly once with size s div 2, which is at least 1 and differs
\* from s, and returned that answer; when s = 1 it has made no second
\* submission and returned the rejection.
C22_MarginRetryHalves ==
    FirstIs("51008") =>
        IF FirstSz > 1
        THEN /\ Len(requests) = 2
             /\ requests[2] = [requests[1] EXCEPT !.sz = FirstSz \div 2]
             /\ requests[2].sz >= 1
             /\ requests[2].sz # FirstSz
             /\ result = IF responses[2] = RaiseResp THEN ErrorDict ELSE responses[2]
        ELSE /\ Len(requests) = 1
             /\ result = responses[1]

C22_Witness ==
    /\ FirstIs("51008")
    /\ FirstSz = 3
    /\ Len(requests) = 2
    /\ requests[2].sz = 1
    /\ result = responses[2]

\* a 51008 rejection of a size of 1, returned as it is
MarginRejectedAtOne ==
    /\ FirstIs("51008")
    /\ FirstSz = 1
    /\ Len(requests) = 1
    /\ result = responses[1]

\* C23: after a TP-direction rejection of the first attempt the retried
\* request's TP trigger lies on the other side of last from the original
\* one, at a relative distance from last of at least |tp_ratio| + 0.001, and
\* the retry's answer is returned with no third submission.
C23_TpFlippedAndWidened ==
    (PostSubmit /\ tp_rejected(responses[1]) /\ order_last > 0) =>
        /\ Len(requests) = 2
        /\ (requests[1].tpTriggerPx > order_last) = (requests[2].tpTriggerPx < order_last)
        /\ (requests[1].tpTriggerPx < order_last) = (requests[2].tpTriggerPx > order_last)
        /\ Abs(requests[2].tpTriggerPx - order_last) * PxDen >= order_last * (Abs(TpRatio) + 1)
        /\ result = IF responses[2] = RaiseResp THEN ErrorDict ELSE responses[2]

\* the step is a place_order call whose first response is a 51004 rejection
\* stating a positive maximum
CapStatedInStep ==
    /\ pc = "submit"
    /\ responses' # <<>>
    /\ responses'[1].code # "raise"
    /\ responses'[1].data # <<>>
    /\ responses'[1].data[1].sCode = "51004"
    /\ StatedMax(responses'[1].data[1].sMsg) # None
    /\ StatedMax(responses'[1].data[1].sMsg)[1] > 0

\* C24: a step that changes the cap cache is a place_order call for the
\* instrument and leverage in hand whose first response is a 51004 rejection
\* stating a positive maximum; the entry of (instrument, leverage) is then
\* that maximum, every other entry is as before and no entry is removed. A
\* place_order call with any other first response leaves the cache as it was.
C24_CacheWrittenOnlyByCapRejection ==
    [][/\ cap_cache' # cap_cache =>
             /\ CapStatedInStep
             /\ DOMAIN cap_cache' = DOMAIN cap_cache \cup {CapKey}
             /\ cap_cache'[CapKey] = StatedMax(responses'[1].data[1].sMsg)[1]
             /\ \A k \in DOMAIN cap_cache \ {CapKey} : cap_cache'[k] = cap_cache[k]
       /\ CapStatedInStep =>
             /\ CapKey \in DOMAIN cap_cache'
             /\ cap_cache'[CapKey] = StatedMax(responses'[1].data[1].sMsg)[1]
       /\ DOMAIN cap_cache \subseteq DOMAIN cap_cache']_vars

\* two instruments have had their caps cached, each under its own key
C24_Witness ==
    /\ Cardinality(DOMAIN cap_cache) = 2
    /\ PostSubmit
    /\ FirstIs("51004")
    /\ StatedMax(FirstItem.sMsg) # None
    /\ cap_cache[CapKey] = StatedMax(FirstItem.sMsg)[1]

\* C25: a write to a key already in the cap cache stores a value that is at
\* most the value it replaces.
C25_CapNeverGrows ==
    [][\A k \in DOMAIN cap_cache : k \in DOMAIN cap_cache' /\ cap_cache'[k] <= cap_cache[k]]_vars

\* C26: in the first request of every order of open_position the TP and SL
\* triggers are those of a long order exactly when the decision was "long":
\* in net mode no position side is sent and the side is buy exactly for a
\* long decision; in dual mode the position side sent is the decision.
C26_DirectionFollowsDecision ==
    PostSubmit =>
        LET long == direction = "long"
        IN  /\ pos_side = "net" =>
                  /\ requests[1].posSide = None
                  /\ (requests[1].side = "buy") = long
            /\ pos_side # "net" =>
                  /\ pos_side \in {"long", "short"}
                  /\ requests[1].posSide = Some(direction)
            /\ requests[1].tpTriggerPx = Fmt6(tp_px(order_last, TpRatio, long))
            /\ requests[1].slTriggerPx = Fmt6(sl_px(order_last, SlRatio, long))

C26_Witness ==
    /\ PostSubmit
    /\ pos_side = "net"
    /\ direction = "short"
    /\ requests[1].side = "sell"
    /\ requests[1].posSide = None
    /\ requests[1].tpTriggerPx < order_last
    /\ requests[1].slTriggerPx > order_last

\* an order in dual mode, its position side sent
DualModeOrder ==
    /\ PostSubmit
    /\ pos_side = "long"
    /\ requests[1].posSide = Some("long")
    /\ requests[1].tpTriggerPx > order_last

\* C27: for a last price above 0 the first request of a submission has its SL
\* trigger strictly below last and its TP trigger strictly above last for a
\* long order, and the other way round for a short one, whatever the sign of
\* the stop-loss ratio.
C27_TriggersStraddleLast ==
    (PostSubmit /\ order_last > 0) =>
        IF direction = "long"
        THEN /\ requests[1].slTriggerPx < order_last
             /\ requests[1].tpTriggerPx > order_last
        ELSE /\ requests[1].slTriggerPx > order_last
             /\ requests[1].tpTriggerPx < order_last

\* a response the ladder has a rung for
Rejection(r) ==
    /\ r.code # "raise"
    /\ r.data # <<>>
    /\ (r.data[1].sCode \in {"51051", "51052", "51004", "51008"} \/ r.data[1].sMsg.tp_hint)

\* C28: one place_order call makes at most two submissions, one response per
\* submission, and what it returns is the answer to the last of them: a
\* second response is returned as it is, rejection or not.
C28_AtMostTwoSubmissions ==
    PostSubmit =>
        /\ Len(requests) \in {1, 2}
        /\ Len(responses) = Len(requests)
        /\ result = IF FinalResponse = RaiseResp THEN ErrorDict ELSE FinalResponse
        /\ (Len(requests) = 2) => Rejection(responses[1])

C28_Witness ==
    /\ PostSubmit
    /\ Len(requests) = 2
    /\ FirstIs("51004")
    /\ Rejection(responses[2])
    /\ responses[2].data[1].sCode = "51008"
    /\ requests[2].sz > 1
    /\ result = responses[2]

\* C29: for notional > 0, leverage >= 1 and last price > 0 the uncapped size
\* is exactly max(1, floor(notional * leverage / last)), for the sizes the
\* loop plans and for every input of the grid; notional 10, leverage 100 and
\* last price 30000 give 1 contract.
C29_SizeIsClampedFloor ==
    /\ PostPlan =>
          /\ (notional > 0 /\ sizing.leverage >= 1 /\ sizing.last > 0) =>
                 sizing.raw = Max(1, (notional * sizing.leverage) \div sizing.last)
          /\ \A n \in SizeNs, l \in SizeLs, p \in (SizePs \cup {sizing.last}) \ {0} :
                 plan_size_from_notional(p, n, l).contracts = Max(1, (n * l) \div p)
    /\ plan_size_from_notional(30000, 10, 100).contracts = 1

C29_Witness ==
    /\ PostPlan
    /\ sizing.last = 30000
    /\ notional = 10
    /\ sizing.leverage = 100
    /\ sizing.raw = 1

\* C30 as stated: for notional > 0, leverage >= 1 and last price > 0 the
\* uncapped size times the last price is at most notional times leverage.
C30_NeverExceedsCapital ==
    (PostPlan /\ notional > 0 /\ sizing.leverage >= 1 /\ sizing.last > 0) =>
        sizing.raw * sizing.last <= notional * sizing.leverage

\* C30: for notional > 0, leverage >= 1 and last price > 0 with
\* notional * leverage >= last price, the uncapped size times the last price
\* is at most notional times leverage; below that the size is the minimum 1,
\* which exceeds the capital.
C30_WithinCapitalAboveOneContract ==
    PostPlan =>
        /\ (notional > 0 /\ sizing.leverage >= 1 /\ sizing.last > 0) =>
              IF notional * sizing.leverage >= sizing.last
              THEN sizing.raw * sizing.last <= notional * sizing.leverage
              ELSE sizing.raw = 1
        /\ \A n \in SizeNs, l \in SizeLs, p \in (SizePs \cup {sizing.last}) \ {0} :
              n * l >= p => plan_size_from_notional(p, n, l).contracts * p <= n * l

\* a size above the minimum has been planned within the capital, and the grid
\* holds an input whose quotient is not whole and is rounded down
C30_Witness ==
    /\ PostPlan
    /\ notional > 0
    /\ sizing.last > 0
    /\ sizing.raw > 1
    /\ sizing.raw * sizing.last <= notional * sizing.leverage
    /\ \E n \in SizeNs, l \in SizeLs, p \in SizePs :
          /\ n * l > p
          /\ (n * l) % p # 0
          /\ plan_size_from_notional(p, n, l).contracts * p < n * l
          /\ (plan_size_from_notional(p, n, l).contracts + 1) * p > n * l

\* a configured contract count that is unset or at least 1
UnsetOrPositive(o) == o = None \/ o[1] >= 1

\* every fixed_contracts and max_contracts of the configuration is unset or
\* at least 1
ContractLimitsValid ==
    /\ UnsetOrPositive(cfg.trading.max_contracts)
    /\ \A i \in 1..Len(cfg.instruments) :
          /\ UnsetOrPositive(cfg.instruments[i].fixed_contracts)
          /\ UnsetOrPositive(cfg.instruments[i].max_contracts)

\* every size sent and every cached cap is at least 1
SizesAtLeastOne ==
    /\ \A i \in 1..Len(requests) : requests[i].sz >= 1
    /\ \A k \in DOMAIN cap_cache : cap_cache[k] >= 1

\* C31 as stated: with valid contract limits every size sent and every cached
\* cap is at least 1, and a retry's size is strictly smaller than the size of
\* the first attempt.
C31_EveryRetrySmaller ==
    ContractLimitsValid =>
        /\ SizesAtLeastOne
        /\ Len(requests) = 2 => requests[2].sz < requests[1].sz

\* C31: with valid contract limits every size sent, in a first attempt or in
\* a retry, and every cached cap is at least 1; the retry after a 51004 or a
\* 51008 rejection has a size strictly smaller than the first attempt's, and
\* the retry after a TP-direction rejection has the first attempt's size.
C31_SizeRetriesSmaller ==
    ContractLimitsValid =>
        /\ SizesAtLeastOne
        /\ Len(requests) = 2 =>
              IF FirstIs("51004") \/ FirstIs("51008")
              THEN requests[2].sz < requests[1].sz
              ELSE requests[2].sz = requests[1].sz

C31_Witness ==
    /\ ContractLimitsValid
    /\ PostSubmit
    /\ FirstIs("51004")
    /\ Len(requests) = 2
    /\ requests[2].sz >= 1
    /\ requests[2].sz < requests[1].sz
    /\ CapKey \in DOMAIN cap_cache
    /\ cap_cache[CapKey] >= 1

\* the fields in which the retry differs from the first request
RetryDiff == {f \in DOMAIN requests[1] : requests[2][f] # requests[1][f]}

\* the one field a retry may change: the size after a 51004 or 51008
\* rejection, the TP trigger after a TP-direction rejection
RetryField == IF FirstIs("51004") \/ FirstIs("51008") THEN "sz" ELSE "tpTriggerPx"

\* a retry leaves every field but its own as in the first request
RetryChangesNothingElse ==
    Len(requests) = 2 =>
        /\ DOMAIN requests[2] = DOMAIN requests[1]
        /\ RetryDiff \subseteq {RetryField}

\* C32: a retry request differs from the first request of the same submission
\* in exactly one field: the TP trigger price after a TP-direction rejection,
\* the size after a 51004 or 51008 rejection.
C32_RetryDiffersInOneField ==
    Len(requests) = 2 =>
        /\ DOMAIN requests[2] = DOMAIN requests[1]
        /\ RetryDiff = {RetryField}

====
